---- MODULE Spec2Model ----
(***************************************************************************)
(* Model of the task-execution loop of backend/core/system_automation.py:  *)
(* create_execution_plan (the planner), execute_step (the dispatcher),     *)
(* the five step handlers, and execute_complex_task (the loop driver).     *)
(*                                                                         *)
(* A task description is a sequence of words; str.lower() is Lower applied *)
(* to each word and `needle in text` is membership of the needle among the *)
(* lowered words.  Python dicts are records: a key is present iff it is in *)
(* the DOMAIN of the record.  The outside world (browser, cloud SDK,       *)
(* shell, file system) decides whether a call succeeds or raises: every    *)
(* handler is an operator that yields the SET of outcomes it can produce.  *)
(***************************************************************************)
EXTENDS Integers, Sequences, FiniteSets, TLC

\* ------------------------------------------------------------- bounds ----
MaxTaskLen == 2

Words == {"Solar", "pipeline", "PIPELINE", "report"}

\* the iteration limit the specification configures for the loop driver
MaxSteps == 10

\* the task ids (timestamps) EnhancedBrain can hand out
MaxBrainTasks == 1
\* the samples of one kind a user submits
MaxSamples == 3
\* the lockdown coroutines that sleep at the same time
MaxLockdowns == 2
\* the manager calls the validating endpoints make
MaxCalls == 2
\* the threads the activations start
MaxThreads == 4
\* the questions waiting in question_queue
MaxQuestions == 1
\* the answers waiting in answer_queue
MaxAnswers == 1
Invocations == {"t1", "t2"}
Sequential == {"t1"}

FileNames == {"solar_pipeline.py", "notes.txt"}

\* a text is a sequence of characters; CR and LF are the two line-end
\* characters, every other character is an ordinary one
CR == "\\r"
LF == "\\n"
Contents == {<< >>, <<"h", "i">>, <<"a", CR, LF, "b">>}
Absent == <<"<absent>">>

\* ------------------------------------------------------ task strings ----
TaskDescriptions == UNION {[1..n -> Words] : n \in 1..MaxTaskLen}

\* str.lower() on one word
Lower(w) ==
  CASE w = "Solar" -> "solar"
    [] w = "PIPELINE" -> "pipeline"
    [] OTHER -> w

\* task.lower()
LowerTask(task) == [i \in DOMAIN task |-> Lower(task[i])]

\* needle in text
Contains(text, needle) == \E i \in DOMAIN text : text[i] = needle

RECURSIVE JoinFrom(_, _)
JoinFrom(task, i) ==
  IF i > Len(task) THEN ""
  ELSE IF i = Len(task) THEN task[i]
  ELSE task[i] \o " " \o JoinFrom(task, i + 1)

\* the task description as one string (for f-strings that embed it)
TaskText(task) == JoinFrom(task, 1)

\* dict.get(key): None when the key is missing
Get(d, key) == IF key \in DOMAIN d THEN d[key] ELSE "None"

\* dict.get(key, default)
GetOr(d, key, default) == IF key \in DOMAIN d THEN d[key] ELSE default

\* ----------------------------------------------------------- planner ----
\* the hard-coded rule of create_execution_plan
MatchesSolarRule(task) ==
  Contains(LowerTask(task), "solar") /\ Contains(LowerTask(task), "pipeline")

SolarPlan ==
  << [type |-> "browser_automation", action |-> "open_aws_console",
      description |-> "Open AWS Console",
      url |-> "https://aws.amazon.com/console/"],
     [type |-> "browser_automation", action |-> "login_aws",
      description |-> "Login to AWS", credentials_source |-> "environment"],
     [type |-> "aws_operation", action |-> "create_lambda_function",
      description |-> "Create Lambda function for solar data processing",
      function_name |-> "solar-ontario-pipeline", runtime |-> "python3.9"],
     [type |-> "aws_operation", action |-> "create_s3_bucket",
      description |-> "Create S3 bucket for solar data storage",
      bucket_name |-> "solar-ontario-data"],
     [type |-> "code_generation", action |-> "generate_pipeline_code",
      description |-> "Generate solar pipeline code", language |-> "python"],
     [type |-> "aws_operation", action |-> "deploy_pipeline",
      description |-> "Deploy complete solar pipeline",
      components |-> <<"lambda", "s3", "cloudwatch">>] >>

GenericPlan(task) ==
  << [type |-> "analysis", action |-> "analyze_task",
      description |-> "Analyze and break down: " \o TaskText(task)] >>

\* a planner whose generic breakdown repeats its analysis step past the limit
OverlongPlan(task) ==
  IF MatchesSolarRule(task)
  THEN SolarPlan
  ELSE [i \in 1..(MaxSteps + 1) |-> GenericPlan(task)[1]]

CreateExecutionPlan(task) ==
  IF MatchesSolarRule(task) THEN SolarPlan ELSE GenericPlan(task)

\* ------------------------------------------------------ observations ----
Success(fields) == [status |-> "success"] @@ fields

ErrorObs(msg) == [error |-> msg]

\* an outcome of a call: it returns a value or raises, leaves the
\* environment env behind, and `calls` lists the handlers entered, in order
Return(value, env, calls) ==
  [kind |-> "return", value |-> value, env |-> env, calls |-> calls]

Raise(exc, env, calls) ==
  [kind |-> "raise", value |-> [exception |-> exc], env |-> env, calls |-> calls]

\* an observation that reports a failure: it carries an error message and
\* does not say status success (run_command puts stderr under "error" too)
IsErrorObs(obs) ==
  /\ "error" \in DOMAIN obs
  /\ ~("status" \in DOMAIN obs /\ obs.status = "success")

\* ---------------------------------------------------------- handlers ----
\* the text generate_solar_pipeline_code returns
SolarPipelineCode ==
  <<LF, "import json", LF, "def lambda_handler(event, context):", LF>>

\* os.linesep of the host (POSIX)
LineSep == <<LF>>

RECURSIVE EncodeNewlines(_)
\* what a text-mode file opened with open(name, "w") stores for a text:
\* every "\n" is written as os.linesep
EncodeNewlines(text) ==
  IF text = << >> THEN << >>
  ELSE (IF Head(text) = LF THEN LineSep ELSE <<Head(text)>>)
       \o EncodeNewlines(Tail(text))

RECURSIVE DecodeNewlines(_)
\* what f.read() returns for a file opened with open(name, "r"): universal
\* newlines, "\r\n" and a lone "\r" both come back as "\n"
DecodeNewlines(stored) ==
  IF stored = << >> THEN << >>
  ELSE IF Head(stored) = CR
       THEN IF Len(stored) >= 2 /\ stored[2] = LF
            THEN <<LF>> \o DecodeNewlines(Tail(Tail(stored)))
            ELSE <<LF>> \o DecodeNewlines(Tail(stored))
       ELSE <<Head(stored)>> \o DecodeNewlines(Tail(stored))

\* the text f.read() returns for the stored characters of a file
ReadText(stored) == DecodeNewlines(stored)

\* with open(name, "w") as f: f.write(text), when it succeeds
WriteFile(fs0, name, text) == [fs0 EXCEPT ![name] = EncodeNewlines(text)]

\* the file systems a failed write can leave: open() failed (nothing
\* changed) or the file was opened, hence truncated, and the write failed
FailedWrite(fs0, name) ==
  IF name \in DOMAIN fs0 THEN {fs0, [fs0 EXCEPT ![name] = << >>]} ELSE {fs0}

BrowserActions ==
  {"open_aws_console", "login_aws", "navigate_to_service", "create_resource"}

BrowserDone(step) ==
  CASE Get(step, "action") = "open_aws_console" -> "AWS Console opened"
    [] Get(step, "action") = "login_aws" -> "AWS login completed"
    [] Get(step, "action") = "navigate_to_service" ->
         "Navigated to " \o GetOr(step, "service", "lambda")
    [] OTHER -> "Resource creation initiated"

\* a browser handler that starts a session on every call
FreshSessionBrowserAction(step, env) ==
  LET action == Get(step, "action")
      me == <<"execute_browser_action">>
      env1 == [env EXCEPT !.driver = "Chrome", !.sessions = @ + 1]
  IN  IF action \in BrowserActions
      THEN {Return(Success([action |-> BrowserDone(step)]), env1, me),
            Return(ErrorObs("Browser action failed: TimeoutException"), env1, me)}
      ELSE {Return(ErrorObs("Unknown browser action: " \o action), env1, me)}

ExecuteBrowserAction(step, env) ==
  LET action == Get(step, "action")
      me == <<"execute_browser_action">>
      \* if not self.driver: self.driver = webdriver.Chrome(...)
      env1 == [env EXCEPT !.driver = "Chrome",
                          !.sessions = IF env.driver = "None" THEN @ + 1 ELSE @]
  IN  \* webdriver.Chrome(...) is outside the try block
      (IF env.driver = "None"
       THEN {Raise("WebDriverException", env, me)}
       ELSE {})
      \cup
      (IF action \in BrowserActions
       THEN IF env.driver = "Quit"
            \* every command to a session that was quit raises inside the try
            THEN {Return(ErrorObs("Browser action failed: InvalidSessionIdException"),
                         env, me)}
            ELSE {Return(Success([action |-> BrowserDone(step)]), env1, me),
                  Return(ErrorObs("Browser action failed: TimeoutException"), env1, me)}
       ELSE {Return(ErrorObs("Unknown browser action: " \o action),
                    IF env.driver = "Quit" THEN env ELSE env1, me)})

RECURSIVE ExecuteAwsOperation(_, _)
RECURSIVE DeployComponents(_, _, _)

\* the for loop of deploy_pipeline from component i on: the set of
\* [results, env, calls] it can end with
DeployComponents(components, i, env) ==
  IF i > Len(components)
  THEN {[results |-> << >>, env |-> env, calls |-> << >>]}
  ELSE
    LET c == components[i]
        sub == IF c = "lambda"
               THEN ExecuteAwsOperation(
                      [action |-> "create_lambda_function",
                       function_name |-> "solar-pipeline-processor"], env)
               ELSE ExecuteAwsOperation(
                      [action |-> "create_s3_bucket",
                       bucket_name |-> "solar-ontario-data"], env)
    IN  IF c \notin {"lambda", "s3"}
        THEN DeployComponents(components, i + 1, env)
        ELSE UNION {
               { [results |-> <<o.value>> \o rest.results,
                  env |-> rest.env,
                  calls |-> o.calls \o rest.calls]
                 : rest \in DeployComponents(components, i + 1, o.env) }
               : o \in sub }

ExecuteAwsOperation(step, env) ==
  LET action == Get(step, "action")
      me == <<"execute_aws_operation">>
      env1 == [env EXCEPT !.aws_session = "Session"]
      failed(e) == Return(ErrorObs("AWS operation failed: ClientError"), e, me)
  IN  \* boto3.Session(...) is inside the try block
      (IF env.aws_session = "None"
       THEN {Return(ErrorObs("AWS operation failed: ProfileNotFound"), env, me)}
       ELSE {})
      \cup
      (CASE action = "create_lambda_function" ->
              {Return(Success(
                 [action |-> "Lambda function created",
                  function_arn |-> "arn:aws:lambda:"
                     \o GetOr(step, "function_name", "jarvis-function")]),
                 env1, me),
               failed(env1)}
         [] action = "create_s3_bucket" ->
              {Return(Success(
                 [action |-> "S3 bucket created",
                  bucket_name |-> GetOr(step, "bucket_name", "jarvis-bucket")]),
                 env1, me),
               failed(env1)}
         [] action = "deploy_pipeline" ->
              { Return(Success([action |-> "Pipeline deployed",
                                components |-> d.results]),
                       d.env, me \o d.calls)
                : d \in DeployComponents(GetOr(step, "components", << >>), 1, env1) }
         [] OTHER ->
              {Return(ErrorObs("Unknown AWS action: " \o action), env1, me)})

ExecuteSystemOperation(step, env) ==
  LET action == Get(step, "action")
      me == <<"execute_system_operation">>
      failed == Return(ErrorObs("System operation failed: OSError"), env, me)
  IN  CASE action = "run_command" ->
             {Return(Success([action |-> "Command executed", output |-> "out",
                              error |-> "", return_code |-> 0]), env, me),
              Return(Success([action |-> "Command executed", output |-> "",
                              error |-> "sh: not found", return_code |-> 127]),
                     env, me),
              failed}
        [] action = "install_package" ->
             {Return(Success(
                [action |-> "Package " \o Get(step, "package") \o " installed",
                 output |-> "out"]), env, me),
              failed}
        [] action = "create_directory" ->
             {Return(Success(
                [action |-> "Directory " \o Get(step, "directory") \o " created"]),
                env, me),
              failed}
        [] OTHER ->
             {Return(ErrorObs("Unknown system action: " \o action), env, me)}

ExecuteCodeGeneration(step, env) ==
  LET action == Get(step, "action")
      me == <<"execute_code_generation">>
      file == "solar_pipeline.py"
  IN  IF action = "generate_pipeline_code"
         /\ GetOr(step, "language", "python") = "python"
      THEN \* open(...)/f.write(code) is not inside any try block
           {Return(Success([action |-> "Solar pipeline code generated",
                            file |-> file,
                            code_length |-> Len(SolarPipelineCode)]),
                   [env EXCEPT !.fs = WriteFile(env.fs, file, SolarPipelineCode)],
                   me)}
           \cup
           {Raise("OSError", [env EXCEPT !.fs = f], me)
              : f \in FailedWrite(env.fs, file)}
      ELSE {Return(ErrorObs("Unknown code generation action: " \o action), env, me)}

ExecuteFileOperation(step, env) ==
  LET action == Get(step, "action")
      me == <<"execute_file_operation">>
      filename == Get(step, "filename")
      failed(e) == Return(ErrorObs("File operation failed: OSError"), e, me)
  IN  CASE action = "create_file" ->
             (IF filename \in DOMAIN env.fs
              THEN {Return(Success([action |-> "File " \o filename \o " created"]),
                           [env EXCEPT !.fs =
                              WriteFile(env.fs, filename, GetOr(step, "content", << >>))],
                           me)}
              ELSE {})
             \cup
             {failed([env EXCEPT !.fs = f]) : f \in FailedWrite(env.fs, filename)}
        [] action = "read_file" ->
             (IF filename \in DOMAIN env.fs /\ env.fs[filename] # Absent
              THEN {Return(Success([action |-> "File " \o filename \o " read",
                                    content |-> ReadText(env.fs[filename])]), env, me)}
              ELSE {})
             \cup {failed(env)}
        [] OTHER ->
             {Return(ErrorObs("Unknown file action: " \o action), env, me)}

\* -------------------------------------------------------- dispatcher ----
HandledTypes ==
  {"browser_automation", "aws_operation", "system_operation",
   "code_generation", "file_operation"}

\* a dispatcher whose cloud branch calls the browser handler
MisroutedExecuteStep(step, env) ==
  LET step_type == Get(step, "type")
  IN  CASE step_type = "browser_automation" -> ExecuteBrowserAction(step, env)
        [] step_type = "aws_operation" -> ExecuteBrowserAction(step, env)
        [] step_type = "system_operation" -> ExecuteSystemOperation(step, env)
        [] step_type = "code_generation" -> ExecuteCodeGeneration(step, env)
        [] step_type = "file_operation" -> ExecuteFileOperation(step, env)
        [] OTHER -> {Return(ErrorObs("Unknown step type: " \o step_type), env, << >>)}

ExecuteStep(step, env) ==
  LET step_type == Get(step, "type")
  IN  CASE step_type = "browser_automation" -> ExecuteBrowserAction(step, env)
        [] step_type = "aws_operation" -> ExecuteAwsOperation(step, env)
        [] step_type = "system_operation" -> ExecuteSystemOperation(step, env)
        [] step_type = "code_generation" -> ExecuteCodeGeneration(step, env)
        [] step_type = "file_operation" -> ExecuteFileOperation(step, env)
        [] OTHER -> {Return(ErrorObs("Unknown step type: " \o step_type), env, << >>)}

\* ------------------------------------------------------------- state ----
VARIABLES
  driver,          \* self.driver (line 36): "None", the browser session, or "Quit"
                   \* for a session object whose quit() has been called
  aws_session,     \* self.aws_session (line 37): "None" or the session
  fs,              \* the files the handlers read and write (lines 346, 367, 377)
  pc,              \* per invocation of execute_complex_task: where it is
  task,            \* per invocation: task_description (line 60)
  execution_plan,  \* per invocation: execution_plan (line 68)
  idx,             \* per invocation: steps the for loop has taken (line 71)
  results,         \* per invocation: results (line 70)
  ret,             \* per invocation: the value returned (lines 80-85)
  callStep,        \* the step of the last direct execute_step call
  callOut,         \* the outcome of the last direct execute_step call
  sessions,        \* how many browser sessions webdriver.Chrome has started
  cur,             \* the coroutine the event loop is running, or "none"
  intruded,        \* per invocation (history): "yes" once another invocation
                   \* navigated the shared browser after this one's first
                   \* step, "acted" once this one then used the page
  written,         \* per file (history): the content argument of the last
                   \* successful create_file, Absent once the file has been
                   \* written in any other way (lines 346, 374)
  mode,            \* main.py ENHANCED_MODE (lines 20, 24): which instances
                   \* the endpoints use
  active_tasks,    \* EnhancedBrain.active_tasks (enhanced_brain.py:26)
  clock,           \* the last value datetime.now().timestamp() returned
  frame,           \* per invocation: the EnhancedBrain coroutine awaiting it
  response,        \* the last HTTP response main.py sent
  \* SecurityManager (security.py)
  biometric_data,  \* self.biometric_data (line 26): per registered username
                   \* its registration_complete flag
  face_encodings,  \* self.face_encodings (line 44): usernames in insertion
                   \* order, each with the number of stored encodings
  voice_models,    \* self.voice_models (line 45): per username the number
                   \* of stored features and whether a model was trained
  authenticated_users,       \* self.authenticated_users (line 25)
  failed_attempts,           \* self.failed_attempts (line 28): per key the
                             \* length of its list
  security_level,            \* self.security_level (line 29)
  registration_mode,         \* self.registration_mode (line 34)
  current_registration_user, \* self.current_registration_user (line 35)
  sleeping,        \* the _trigger_security_lockdown coroutines waiting in
                   \* asyncio.sleep(300) (line 513), oldest first
  secOut,          \* the value the last SecurityManager call returned
  manager_calls,   \* the calls the validating endpoints of main.py made
                   \* on security_manager, skills_manager and voice_manager
  is_active,       \* StealthSystem.is_active (stealth_system.py line 34)
  current_mode,    \* StealthSystem.current_mode (line 35)
  question_queue,  \* the number of items of self.question_queue (line 37)
  answer_queue,    \* the number of items of self.answer_queue (line 38)
  threads          \* the threads the activations started, in start order:
                   \* target, position, and whether deactivate() has been
                   \* called since the start

envVars == <<driver, aws_session, fs, sessions>>
loopVars == <<pc, task, execution_plan, idx, results, ret>>
callVars == <<callStep, callOut>>
brainVars == <<mode, active_tasks, clock, frame, response>>
secVars == <<biometric_data, face_encodings, voice_models, authenticated_users,
             failed_attempts, security_level, registration_mode,
             current_registration_user, sleeping, secOut>>
valVars == <<manager_calls>>
stealthVars == <<is_active, current_mode, question_queue, answer_queue, threads>>
extVars == <<secVars, valVars, stealthVars>>
vars == <<driver, aws_session, fs, pc, task, execution_plan, idx, results,
          ret, callStep, callOut, sessions, cur, intruded, written,
          mode, active_tasks, clock, frame, response,
          biometric_data, face_encodings, voice_models, authenticated_users,
          failed_attempts, security_level, registration_mode,
          current_registration_user, sleeping, secOut,
          manager_calls, is_active, current_mode, question_queue,
          answer_queue, threads>>

NoReturn == [status |-> "<not returned>"]
NoStep == [type |-> "<none>"]
NoOutcome == [kind |-> "<none>"]
NoFrame == [via |-> "none"]
NoResponse == [endpoint |-> "<none>"]
Modes == {"enhanced", "placeholder"}

CurEnv ==
  [driver |-> driver, aws_session |-> aws_session, fs |-> fs,
   sessions |-> sessions]

SetEnv(env) ==
  /\ driver' = env.driver
  /\ aws_session' = env.aws_session
  /\ fs' = env.fs
  /\ sessions' = env.sessions

\* create_file wrote the step's content to the step's file
Created(step, o) ==
  /\ Get(step, "type") = "file_operation"
  /\ Get(step, "action") = "create_file"
  /\ o.kind = "return"
  /\ ~IsErrorObs(o.value)

\* what is known of each file's last write after a step
WrittenAfter(step, o) ==
  [f \in FileNames |->
     IF Created(step, o) /\ Get(step, "filename") = f
     THEN GetOr(step, "content", << >>)
     ELSE IF o.env.fs[f] # fs[f] THEN Absent ELSE written[f]]

\* the handler awaited asyncio.sleep before it returned, so other
\* coroutines could run: only the success branches of the browser handler do
Awaited(o) ==
  /\ o.kind = "return"
  /\ o.calls = <<"execute_browser_action">>
  /\ ~IsErrorObs(o.value)

\* the module-level instances as their constructors leave them
Constructed ==
  /\ driver = "None"
  /\ aws_session = "None"
  /\ fs = [f \in FileNames |-> Absent]
  /\ pc = [t \in Invocations |-> "idle"]
  /\ task = [t \in Invocations |-> << >>]
  /\ execution_plan = [t \in Invocations |-> << >>]
  /\ idx = [t \in Invocations |-> 0]
  /\ results = [t \in Invocations |-> << >>]
  /\ ret = [t \in Invocations |-> NoReturn]
  /\ callStep = NoStep
  /\ callOut = NoOutcome
  /\ sessions = 0
  /\ cur = "none"
  /\ intruded = [t \in Invocations |-> "no"]
  /\ written = [f \in FileNames |-> Absent]
  /\ active_tasks = << >>
  /\ clock = 0
  /\ frame = [t \in Invocations |-> NoFrame]
  /\ response = NoResponse
  /\ biometric_data = << >>
  /\ face_encodings = << >>
  /\ voice_models = << >>
  /\ authenticated_users = << >>
  /\ failed_attempts = << >>
  /\ security_level = "high"
  /\ registration_mode = FALSE
  /\ current_registration_user = "None"
  /\ sleeping = << >>
  /\ secOut = [call |-> "<none>"]
  /\ manager_calls = << >>
  /\ is_active = FALSE
  /\ current_mode = "None"
  /\ question_queue = 0
  /\ answer_queue = 0
  /\ threads = << >>

\* the enhanced modules are the ones the loop and the handlers belong to
Init == Constructed /\ mode = "enhanced"

\* ------------------------------------------------------- loop driver ----
\* a start whose planner reads the instance: it leaves out the plan's first
\* step once a browser session exists
StartTaskSessionAware(t, description) ==
  /\ pc[t] \in {"idle", "done"}
  /\ cur \in {"none", t}
  /\ cur' = t
  /\ pc' = [pc EXCEPT ![t] = "running"]
  /\ task' = [task EXCEPT ![t] = description]
  /\ execution_plan' = [execution_plan EXCEPT ![t] =
       IF driver # "None" /\ Len(CreateExecutionPlan(description)) > 1
       THEN Tail(CreateExecutionPlan(description))
       ELSE CreateExecutionPlan(description)]
  /\ idx' = [idx EXCEPT ![t] = 0]
  /\ results' = [results EXCEPT ![t] = << >>]
  /\ ret' = [ret EXCEPT ![t] = NoReturn]
  /\ intruded' = [intruded EXCEPT ![t] = "no"]
  /\ UNCHANGED <<envVars, callVars, written, brainVars, extVars>>

\* execute_complex_task up to the for loop: the plan is made once
StartTask(t, description) ==
  /\ pc[t] \in {"idle", "done"}
  /\ cur \in {"none", t}
  /\ cur' = t
  /\ pc' = [pc EXCEPT ![t] = "running"]
  /\ task' = [task EXCEPT ![t] = description]
  /\ execution_plan' = [execution_plan EXCEPT ![t] = CreateExecutionPlan(description)]
  /\ idx' = [idx EXCEPT ![t] = 0]
  /\ results' = [results EXCEPT ![t] = << >>]
  /\ ret' = [ret EXCEPT ![t] = NoReturn]
  /\ intruded' = [intruded EXCEPT ![t] = "no"]
  /\ UNCHANGED <<envVars, callVars, written, brainVars, extVars>>

\* what one pass of the loop body appends for an outcome of execute_step:
\* the returned observation, or the except branch's record
Appended(step, o) ==
  IF o.kind = "return" THEN o.value
  ELSE [error |-> o.value.exception, step |-> step]

\* the step made the browser load a page: driver.get(...) completed
Navigates(step, o) ==
  /\ Get(step, "type") = "browser_automation"
  /\ Get(step, "action") = "open_aws_console"
  /\ o.kind = "return"
  /\ ~IsErrorObs(o.value)

\* the step looked up or used elements of the page the browser shows
ActsOnPage(step, o) ==
  /\ Get(step, "type") = "browser_automation"
  /\ Get(step, "action") \in BrowserActions \ {"open_aws_console"}
  /\ o.kind = "return"

\* the history of page use after invocation t ran `step` with outcome o
PageHistory(t, step, o) ==
  [u \in Invocations |->
     IF u = t
     THEN IF Navigates(step, o) THEN "no"
          ELSE IF ActsOnPage(step, o) /\ intruded[t] = "yes" THEN "acted"
          ELSE intruded[t]
     ELSE IF Navigates(step, o) /\ pc[u] = "running" /\ idx[u] >= 1
             /\ intruded[u] = "no"
          THEN "yes"
          ELSE intruded[u]]

\* a loop that looks for one step more than the plan holds
ExhaustedOffByOne(t) == idx[t] > Len(execution_plan[t])

\* the for loop has taken every step of the plan
PlanExhausted(t) == idx[t] >= Len(execution_plan[t])

\* one results list that every running invocation appends to
SharedResultsAfter(t, entry) ==
  [u \in Invocations |->
     IF u = t \/ pc[u] = "running" THEN Append(results[u], entry)
     ELSE results[u]]

\* a list that takes each new entry at its front
PrependedResultsAfter(t, entry) == [results EXCEPT ![t] = <<entry>> \o @]

\* results.append(...) on the invocation's own local list
ResultsAfter(t, entry) == [results EXCEPT ![t] = Append(@, entry)]

\* a loop that takes the step it has just run once more
RetriedStep(t) ==
  execution_plan[t][IF idx[t] = 1 THEN 1 ELSE idx[t] + 1]

\* the step the for loop hands to execute_step
NextStepOf(t) == execution_plan[t][idx[t] + 1]

\* one pass of the for loop: try execute_step, append, or append the error
RunStep(t) ==
  /\ pc[t] = "running"
  /\ cur \in {"none", t}
  /\ idx[t] < Len(execution_plan[t])
  /\ LET step == NextStepOf(t)
     IN  \E o \in ExecuteStep(step, CurEnv) :
           /\ results' = ResultsAfter(t, Appended(step, o))
           /\ SetEnv(o.env)
           /\ cur' = IF Awaited(o) THEN "none" ELSE t
           /\ intruded' = PageHistory(t, step, o)
           /\ written' = WrittenAfter(step, o)
  /\ idx' = [idx EXCEPT ![t] = @ + 1]
  /\ UNCHANGED <<pc, task, execution_plan, ret, callVars, brainVars, extVars>>

\* the value execute_complex_task returns
TaskResult(t) ==
  [task |-> task[t], execution_plan |-> execution_plan[t],
   results |-> results[t], status |-> "completed"]

\* the for loop is over: return
ReturnTask(t) ==
  /\ pc[t] = "running"
  /\ cur \in {"none", t}
  /\ PlanExhausted(t)
  /\ ret' = [ret EXCEPT ![t] = TaskResult(t)]
  /\ pc' = [pc EXCEPT ![t] = "done"]
  /\ cur' = t
  /\ UNCHANGED <<task, execution_plan, idx, results, envVars, callVars,
                 intruded, written, brainVars, extVars>>

Next ==
  \E t \in Sequential :
    \/ \E d \in TaskDescriptions : StartTask(t, d)
    \/ RunStep(t)
    \/ ReturnTask(t)

Spec == Init /\ [][Next]_vars

\* the event loop resumes a task whose awaited handler has returned
FairSpec ==
  Spec /\ \A t \in Sequential : WF_vars(RunStep(t)) /\ WF_vars(ReturnTask(t))

\* ------------------------------------------- concurrent invocations ----
\* the task descriptions of the concurrent requests
ConcTasks == {<<"Solar", "pipeline">>, <<"report">>}

\* the caller receives the returned value and the invocation's frame is
\* gone; only then does the event loop run another coroutine
Respond(t) ==
  /\ pc[t] = "done"
  /\ cur = t
  /\ pc' = [pc EXCEPT ![t] = "idle"]
  /\ task' = [task EXCEPT ![t] = << >>]
  /\ execution_plan' = [execution_plan EXCEPT ![t] = << >>]
  /\ idx' = [idx EXCEPT ![t] = 0]
  /\ results' = [results EXCEPT ![t] = << >>]
  /\ ret' = [ret EXCEPT ![t] = NoReturn]
  /\ intruded' = [intruded EXCEPT ![t] = "no"]
  /\ cur' = "none"
  /\ UNCHANGED <<envVars, callVars, written, brainVars, extVars>>

ConcNext ==
  \E t \in Invocations :
    \/ \E d \in ConcTasks : StartTask(t, d)
    \/ RunStep(t)
    \/ ReturnTask(t)
    \/ Respond(t)

\* two requests served by one event loop on the one SystemAutomation
ConcSpec == Init /\ [][ConcNext]_vars

\* ------------------------------------------- direct execute_step calls ----
StepTypes == HandledTypes \cup {"analysis", "finish", "cloud_operation"}

StepActions ==
  BrowserActions
  \cup {"create_lambda_function", "create_s3_bucket", "deploy_pipeline"}
  \cup {"run_command", "install_package", "create_directory"}
  \cup {"generate_pipeline_code", "create_file", "read_file", "analyze_task"}

\* the steps callers hand to execute_step
StepInputs ==
  {[type |-> ty, action |-> a] : ty \in StepTypes, a \in StepActions}
  \cup {[type |-> "file_operation", action |-> a, filename |-> f, content |-> c]
          : a \in {"create_file", "read_file"}, f \in FileNames, c \in Contents}
  \cup {[type |-> "code_generation", action |-> "generate_pipeline_code",
         language |-> l] : l \in {"python", "java"}}
  \cup {[type |-> "aws_operation", action |-> "deploy_pipeline", components |-> cs]
          : cs \in {<<"lambda", "s3", "cloudwatch">>, <<"s3">>}}
  \cup {[type |-> "system_operation", action |-> "run_command", command |-> "ls"],
        [type |-> "system_operation", action |-> "install_package",
         package |-> "requests"],
        [type |-> "system_operation", action |-> "create_directory",
         directory |-> "out"],
        [action |-> "run_command", command |-> "ls"]}

\* one call of execute_step from outside the loop (EnhancedBrain's
\* execute_system_operation makes such calls)
CallExecuteStep(step) ==
  /\ \E o \in ExecuteStep(step, CurEnv) :
       /\ callOut' = o
       /\ SetEnv(o.env)
       /\ written' = WrittenAfter(step, o)
  /\ callStep' = step
  /\ UNCHANGED <<loopVars, cur, intruded, brainVars, extVars>>

StepNext == \E step \in StepInputs : CallExecuteStep(step)

StepSpec == Init /\ [][StepNext]_vars

\* ------------------------------------------------- brain and HTTP API ----
\* the commands of the requests: one per intent that reaches the loop, and
\* one that does not
ApiCommands ==
  {<<"Solar", "pipeline", "aws">>, <<"pipeline", "aws">>,
   <<"manage", "report">>, <<"report">>}

\* the ids DELETE /api/tasks/{task_id} is called with; 0 is never handed out
TaskIds == 0..MaxBrainTasks

\* any(keyword in command_lower for keyword in keywords)
AnyIn(text, keywords) == \E k \in keywords : Contains(text, k)

Intent(type, category) == [type |-> type, category |-> category]

\* EnhancedBrain.analyze_intent
AnalyzeIntent(command) ==
  LET command_lower == LowerTask(command)
  IN  IF /\ AnyIn(command_lower, {"create", "build", "deploy", "setup", "pipeline"})
         /\ AnyIn(command_lower, {"aws", "lambda", "s3", "ec2", "cloud"})
      THEN Intent("complex_task", "aws_deployment")
      ELSE IF /\ AnyIn(command_lower, {"create", "build", "deploy", "setup", "pipeline"})
              /\ AnyIn(command_lower, {"website", "app", "application"})
      THEN Intent("complex_task", "application_development")
      ELSE IF AnyIn(command_lower, {"open", "launch", "start", "run", "execute"})
      THEN Intent("system_operation", "application_control")
      ELSE IF AnyIn(command_lower, {"what", "how", "why", "when", "where", "show", "tell"})
      THEN Intent("information_request", "query")
      ELSE IF AnyIn(command_lower, {"automate", "control", "manage", "handle"})
      THEN Intent("automation_task", "process_automation")
      ELSE Intent("general_command", "general")

\* EnhancedBrain.parse_automation_requirements: the type it returns
ParseAutomationRequirements(command) ==
  IF AnyIn(LowerTask(command), {"browser", "web", "website", "navigate"})
  THEN "web_automation"
  ELSE "process_automation"

\* datetime.now().timestamp(): later than the last value read (successive
\* calls are more than the clock's microsecond apart)
Timestamps(last) == {n \in {last + 1} : n <= MaxBrainTasks}

\* EnhancedBrain.calculate_execution_time, in tenths of a second
CalculateExecutionTime(result) ==
  IF "results" \in DOMAIN result THEN Len(result.results) * 25 ELSE 10

\* what FastAPI sends for a returned value
Ok(endpoint, request, body) ==
  [endpoint |-> endpoint, request |-> request, status_code |-> 200,
   body |-> body]

\* what FastAPI sends for HTTPException(status_code=500, detail=...); logged
\* is the exception text the handler passed to logger.error
ServerError(endpoint, request, detail, logged) ==
  [endpoint |-> endpoint, request |-> request, status_code |-> 500,
   detail |-> detail, logged |-> logged]

\* POST /api/command up to the call of SystemAutomation.execute_complex_task,
\* or to the response when the command does not reach the loop. Commands
\* with the intents system_operation and information_request, and web
\* automation, are not among the requests of this model.
ProcessCommand(t, command) ==
  /\ cur = "none"
  /\ pc[t] = "idle"
  /\ frame[t] = NoFrame
  /\ IF mode = "placeholder"
     THEN /\ response' = Ok("/api/command", command,
                            [status |-> "placeholder_mode",
                             message |-> "Enhanced automation capabilities are being initialized..."])
          /\ UNCHANGED <<frame, clock, cur>>
     ELSE LET intent == AnalyzeIntent(command)
          IN  CASE intent.type = "complex_task" ->
                     \E now \in Timestamps(clock) :
                       /\ clock' = now
                       /\ frame' = [frame EXCEPT ![t] =
                            [via |-> "execute_complex_task", command |-> command,
                             intent |-> intent, task_id |-> now]]
                       /\ cur' = t
                       /\ UNCHANGED response
                [] /\ intent.type = "automation_task"
                   /\ ParseAutomationRequirements(command) = "process_automation" ->
                     /\ frame' = [frame EXCEPT ![t] =
                          [via |-> "execute_automation_task", command |-> command]]
                     /\ cur' = t
                     /\ UNCHANGED <<clock, response>>
                [] intent.type = "general_command" ->
                     /\ response' = Ok("/api/command", command,
                                       [status |-> "success",
                                        message |-> "Command processed"])
                     /\ UNCHANGED <<frame, clock, cur>>
                [] OTHER -> FALSE
  /\ UNCHANGED <<envVars, loopVars, callVars, intruded, written, mode,
                 active_tasks, extVars>>

\* await self.system_automation.execute_complex_task(command)
CallAutomation(t) ==
  /\ frame[t] # NoFrame
  /\ pc[t] = "idle"
  /\ StartTask(t, frame[t].command)

\* the loop has returned to EnhancedBrain: the task is stored (only now, and
\* only on the execute_complex_task path), the value goes back through
\* process_command and the endpoint sends it
CommandDone(t) ==
  /\ pc[t] = "done"
  /\ cur = t
  /\ frame[t] # NoFrame
  /\ IF frame[t].via = "execute_complex_task"
     THEN /\ active_tasks' =
               (frame[t].task_id :>
                  [command |-> frame[t].command, intent |-> frame[t].intent,
                   result |-> ret[t], status |-> "completed"])
               @@ active_tasks
          /\ response' = Ok("/api/command", frame[t].command,
               [task_id |-> frame[t].task_id, status |-> "success",
                message |-> "Complex task executed successfully: "
                              \o TaskText(frame[t].command),
                result |-> ret[t],
                execution_time |-> CalculateExecutionTime(ret[t])])
     ELSE /\ response' = Ok("/api/command", frame[t].command, ret[t])
          /\ UNCHANGED active_tasks
  /\ frame' = [frame EXCEPT ![t] = NoFrame]
  /\ pc' = [pc EXCEPT ![t] = "idle"]
  /\ task' = [task EXCEPT ![t] = << >>]
  /\ execution_plan' = [execution_plan EXCEPT ![t] = << >>]
  /\ idx' = [idx EXCEPT ![t] = 0]
  /\ results' = [results EXCEPT ![t] = << >>]
  /\ ret' = [ret EXCEPT ![t] = NoReturn]
  /\ intruded' = [intruded EXCEPT ![t] = "no"]
  /\ cur' = "none"
  /\ UNCHANGED <<envVars, callVars, written, mode, clock, extVars>>

\* POST /api/execute-task: SystemAutomation has no execute_task method, so
\* the enhanced instance raises AttributeError inside the try block
ExecuteTaskEndpoint(description) ==
  /\ cur = "none"
  /\ response' =
       IF mode = "placeholder"
       THEN Ok("/api/execute-task", description,
               [status |-> "placeholder",
                message |-> "System automation not available in placeholder mode"])
       ELSE ServerError("/api/execute-task", description,
               "Task execution failed",
               "'SystemAutomation' object has no attribute 'execute_task'")
  /\ UNCHANGED <<envVars, loopVars, callVars, cur, intruded, written, mode,
                 active_tasks, clock, frame, extVars>>

\* the response to DELETE /api/tasks/{task_id}, with (history) the
\* invocations that were in flight when the request was handled
Cancelled(task_id, body) ==
  Ok("DELETE /api/tasks", task_id, body)
    @@ [in_flight |-> {t \in Invocations : pc[t] = "running"}]

\* a cancel_task that also stops the invocations in flight
CancelTaskStopping(task_id) ==
  /\ cur = "none"
  /\ response' = Cancelled(task_id,
                    [status |-> "success",
                     message |-> "Task " \o ToString(task_id) \o " cancelled"])
  /\ pc' = [t \in Invocations |->
              IF pc[t] = "running" /\ frame[t] # NoFrame THEN "done" ELSE pc[t]]
  /\ UNCHANGED <<envVars, task, execution_plan, idx, results, ret, callVars,
                 cur, intruded, written, mode, active_tasks, clock, frame, extVars>>

\* DELETE /api/tasks/{task_id}: EnhancedBrain.cancel_task
CancelTask(task_id) ==
  /\ cur = "none"
  /\ IF mode = "placeholder"
     THEN /\ response' = Cancelled(task_id,
               [status |-> "placeholder",
                message |-> "Task cancellation not available in placeholder mode"])
          /\ UNCHANGED active_tasks
     ELSE IF task_id \in DOMAIN active_tasks
     THEN /\ active_tasks' = [active_tasks EXCEPT ![task_id].status = "cancelled"]
          /\ response' = Cancelled(task_id,
               [status |-> "success",
                message |-> "Task " \o ToString(task_id) \o " cancelled"])
     ELSE /\ response' = Cancelled(task_id,
               [error |-> "Task " \o ToString(task_id) \o " not found"])
          /\ UNCHANGED active_tasks
  /\ UNCHANGED <<envVars, loopVars, callVars, cur, intruded, written, mode,
                 clock, frame, extVars>>

ApiInit == Constructed /\ mode \in Modes

ApiNext ==
  \/ \E t \in Invocations :
       \/ \E command \in ApiCommands : ProcessCommand(t, command)
       \/ CallAutomation(t)
       \/ RunStep(t)
       \/ ReturnTask(t)
       \/ CommandDone(t)
  \/ \E description \in ApiCommands : ExecuteTaskEndpoint(description)
  \/ \E task_id \in TaskIds : CancelTask(task_id)

\* the endpoints of main.py served by one event loop
ApiSpec == ApiInit /\ [][ApiNext]_vars

\* ------------------------------------------------------------ cleanup ----
\* SystemAutomation.cleanup: the session is quit, self.driver keeps the
\* object; active_processes is always empty
Cleanup ==
  /\ cur = "none"
  /\ driver' = IF driver = "None" THEN "None" ELSE "Quit"
  /\ callStep' = [type |-> "<cleanup>"]
  /\ callOut' = NoOutcome
  /\ UNCHANGED <<aws_session, fs, sessions, loopVars, cur, intruded, written,
                 brainVars, extVars>>

CleanupNext == StepNext \/ Cleanup

\* direct execute_step calls and cleanup calls on one instance
CleanupSpec == Init /\ [][CleanupNext]_vars

\* ---------------------------------------------------- SecurityManager ----
\* the usernames of the registration requests
Usernames == {"alice", "bob"}

\* required_samples (lines 156, 210) and the literal 3 of line 240
RequiredSamples == 3

\* the lockdown threshold of _record_failed_attempt (line 496)
LockdownThreshold == 5

\* the list length _record_failed_attempt trims to (line 485)
KeptAttempts == 10

\* dict[key] = value
Put(d, key, value) == (key :> value) @@ d

\* del dict[key]
Del(d, key) == [k \in DOMAIN d \ {key} |-> d[k]]

\* not self.registration_mode or not self.current_registration_user
NoActiveSession ==
  ~registration_mode \/ current_registration_user \in {"None", ""}

\* len(self.face_encodings.get(username, []))
FaceSamples(username) ==
  IF \E i \in DOMAIN face_encodings : face_encodings[i].username = username
  THEN LET i == CHOOSE j \in DOMAIN face_encodings :
                  face_encodings[j].username = username
       IN  face_encodings[i].n
  ELSE 0

\* len(self.voice_models.get(username, {}).get("features", []))
VoiceSamples(username) ==
  IF username \in DOMAIN voice_models THEN voice_models[username].features
  ELSE 0

\* self.face_encodings[username].append(...), creating the list at the end
\* of the dict when the username is new
FaceAppended(username) ==
  IF \E i \in DOMAIN face_encodings : face_encodings[i].username = username
  THEN [i \in DOMAIN face_encodings |->
          IF face_encodings[i].username = username
          THEN [face_encodings[i] EXCEPT !.n = @ + 1]
          ELSE face_encodings[i]]
  ELSE Append(face_encodings, [username |-> username, n |-> 1])

Said(call, success, message) ==
  [call |-> call, success |-> success, message |-> message]

\* SecurityManager.start_registration
StartRegistration(username) ==
  /\ IF username \in DOMAIN biometric_data
     THEN /\ secOut' = Said("start_registration", FALSE,
                            "User already exists. Please choose a different username.")
          /\ UNCHANGED <<registration_mode, current_registration_user,
                         biometric_data>>
     ELSE /\ registration_mode' = TRUE
          /\ current_registration_user' = username
          /\ biometric_data' = Put(biometric_data, username,
               [face_samples |-> 0, voice_samples |-> 0,
                registration_complete |-> FALSE])
          /\ secOut' = Said("start_registration", TRUE,
                            "Registration started for " \o username)
  /\ UNCHANGED <<face_encodings, voice_models, authenticated_users,
                 failed_attempts, security_level, sleeping>>
  /\ UNCHANGED <<envVars, loopVars, callVars, cur, intruded, written, brainVars,
                 valVars, stealthVars>>

\* SecurityManager.register_face_sample; decoded is what the image
\* processing gives: an encoding, no face, or an exception
RegisterFaceSample(decoded) ==
  /\ IF NoActiveSession
     THEN /\ secOut' = Said("register_face_sample", FALSE,
                            "No active registration session")
          /\ UNCHANGED <<face_encodings, biometric_data>>
     ELSE IF decoded = "no_face"
     THEN /\ secOut' = Said("register_face_sample", FALSE,
                            "No face detected in image")
          /\ UNCHANGED <<face_encodings, biometric_data>>
     ELSE IF decoded = "error"
     THEN /\ secOut' = Said("register_face_sample", FALSE,
                            "Error processing face sample")
          /\ UNCHANGED <<face_encodings, biometric_data>>
     ELSE /\ FaceSamples(current_registration_user) < MaxSamples
          /\ face_encodings' = FaceAppended(current_registration_user)
          /\ biometric_data' =
               [biometric_data EXCEPT
                  ![current_registration_user].face_samples = @ + 1]
          /\ secOut' = Said("register_face_sample", TRUE,
               IF FaceSamples(current_registration_user) + 1 >= RequiredSamples
               THEN "Face enrollment complete" ELSE "Face sample recorded")
  /\ UNCHANGED <<voice_models, authenticated_users, failed_attempts,
                 security_level, registration_mode, current_registration_user,
                 sleeping>>
  /\ UNCHANGED <<envVars, loopVars, callVars, cur, intruded, written, brainVars,
                 valVars, stealthVars>>

\* SecurityManager.register_voice_sample with _train_voice_model; decoded
\* is what the audio processing gives, trained whether GaussianMixture.fit
\* went through
RegisterVoiceSample(decoded, trained) ==
  /\ IF NoActiveSession
     THEN /\ secOut' = Said("register_voice_sample", FALSE,
                            "No active registration session")
          /\ UNCHANGED <<voice_models, biometric_data>>
     ELSE IF decoded = "error"
     THEN /\ secOut' = Said("register_voice_sample", FALSE,
                            "Error processing voice sample")
          /\ UNCHANGED <<voice_models, biometric_data>>
     ELSE LET username == current_registration_user
              n == VoiceSamples(username) + 1
              had == username \in DOMAIN voice_models
                       /\ voice_models[username].model
          IN  /\ VoiceSamples(username) < MaxSamples
              /\ voice_models' = Put(voice_models, username,
                   [features |-> n,
                    model |-> IF n >= RequiredSamples /\ trained THEN TRUE
                              ELSE had])
              /\ biometric_data' =
                   [biometric_data EXCEPT ![username].voice_samples = @ + 1]
              /\ secOut' = Said("register_voice_sample", TRUE,
                   IF n >= RequiredSamples
                   THEN "Voice enrollment complete" ELSE "Voice sample recorded")
  /\ UNCHANGED <<face_encodings, authenticated_users, failed_attempts,
                 security_level, registration_mode, current_registration_user,
                 sleeping>>
  /\ UNCHANGED <<envVars, loopVars, callVars, cur, intruded, written, brainVars,
                 valVars, stealthVars>>

\* a completion that asks for face samples only
CompleteRegistrationFaceOnly ==
  /\ IF NoActiveSession \/ FaceSamples(current_registration_user) < RequiredSamples
     THEN /\ secOut' = Said("complete_registration", FALSE, "Insufficient samples")
          /\ UNCHANGED <<biometric_data, registration_mode,
                         current_registration_user>>
     ELSE /\ biometric_data' =
               [biometric_data EXCEPT
                  ![current_registration_user].registration_complete = TRUE]
          /\ registration_mode' = FALSE
          /\ current_registration_user' = "None"
          /\ secOut' = Said("complete_registration", TRUE,
                            "Registration completed successfully")
  /\ UNCHANGED <<face_encodings, voice_models, authenticated_users,
                 failed_attempts, security_level, sleeping>>
  /\ UNCHANGED <<envVars, loopVars, callVars, cur, intruded, written, brainVars,
                 valVars, stealthVars>>

\* SecurityManager.complete_registration
CompleteRegistration ==
  /\ IF NoActiveSession
     THEN /\ secOut' = Said("complete_registration", FALSE,
                            "No active registration session")
          /\ UNCHANGED <<biometric_data, registration_mode,
                         current_registration_user>>
     ELSE IF \/ FaceSamples(current_registration_user) < RequiredSamples
             \/ VoiceSamples(current_registration_user) < RequiredSamples
     THEN /\ secOut' = Said("complete_registration", FALSE, "Insufficient samples")
          /\ UNCHANGED <<biometric_data, registration_mode,
                         current_registration_user>>
     ELSE /\ biometric_data' =
               [biometric_data EXCEPT
                  ![current_registration_user].registration_complete = TRUE]
          /\ registration_mode' = FALSE
          /\ current_registration_user' = "None"
          /\ secOut' = Said("complete_registration", TRUE,
                            "Registration completed successfully")
  /\ UNCHANGED <<face_encodings, voice_models, authenticated_users,
                 failed_attempts, security_level, sleeping>>
  /\ UNCHANGED <<envVars, loopVars, callVars, cur, intruded, written, brainVars,
                 valVars, stealthVars>>

\* a lockdown that keeps the list of failed attempts
RecordFailedAttemptKeeping(user, call, message) ==
  LET appended == IF user \in DOMAIN failed_attempts
                  THEN failed_attempts[user] + 1 ELSE 1
      kept == IF appended > KeptAttempts THEN KeptAttempts ELSE appended
  IN  IF kept >= LockdownThreshold
      THEN /\ Len(sleeping) < MaxLockdowns
           /\ security_level' = "lockdown"
           /\ failed_attempts' = Put(failed_attempts, user, kept)
           /\ sleeping' = Append(sleeping, Said(call, FALSE, message))
           /\ UNCHANGED secOut
      ELSE /\ failed_attempts' = Put(failed_attempts, user, kept)
           /\ secOut' = Said(call, FALSE, message)
           /\ UNCHANGED <<security_level, sleeping>>

\* _record_failed_attempt(user, ...) with _trigger_security_lockdown up to
\* its asyncio.sleep: the failed_attempts, security_level and sleeping that
\* result; call is the request that waits in the sleep
RecordFailedAttempt(user, call, message) ==
  LET appended == IF user \in DOMAIN failed_attempts
                  THEN failed_attempts[user] + 1 ELSE 1
      kept == IF appended > KeptAttempts THEN KeptAttempts ELSE appended
  IN  IF kept >= LockdownThreshold
      THEN /\ Len(sleeping) < MaxLockdowns
           /\ security_level' = "lockdown"
           /\ failed_attempts' = Del(failed_attempts, user)
           /\ sleeping' = Append(sleeping, Said(call, FALSE, message))
           /\ UNCHANGED secOut
      ELSE /\ failed_attempts' = Put(failed_attempts, user, kept)
           /\ secOut' = Said(call, FALSE, message)
           /\ UNCHANGED <<security_level, sleeping>>

\* the first user of face_encodings, in dict order, whose registration is
\* complete and whose stored encodings match; "None" if there is none
RECURSIVE FirstMatch(_, _)
FirstMatch(i, matches) ==
  IF i > Len(face_encodings) THEN "None"
  ELSE IF /\ biometric_data[face_encodings[i].username].registration_complete
          /\ face_encodings[i].username \in matches
       THEN face_encodings[i].username
       ELSE FirstMatch(i + 1, matches)

Authenticated(call, method, username) ==
  /\ authenticated_users' = Put(authenticated_users, username, [method |-> method])
  /\ secOut' = Said(call, TRUE, method \o " authentication successful")
                 @@ [user |-> username]
  /\ UNCHANGED <<failed_attempts, security_level, sleeping>>

\* a face authentication that does not look at registration_complete
AuthenticateFaceUnchecked(decoded, matches) ==
  /\ decoded = "face"
  /\ \E i \in DOMAIN face_encodings :
       /\ face_encodings[i].username \in matches
       /\ Authenticated("authenticate_face", "face", face_encodings[i].username)
  /\ UNCHANGED <<biometric_data, face_encodings, voice_models,
                 registration_mode, current_registration_user>>
  /\ UNCHANGED <<envVars, loopVars, callVars, cur, intruded, written, brainVars,
                 valVars, stealthVars>>

\* SecurityManager.authenticate_face; decoded is what the image processing
\* gives, matches the users whose stored encodings compare_faces accepts
AuthenticateFace(decoded, matches) ==
  /\ IF decoded = "no_face"
     THEN /\ secOut' = Said("authenticate_face", FALSE, "No face detected")
          /\ UNCHANGED <<authenticated_users, failed_attempts, security_level,
                         sleeping>>
     ELSE IF decoded = "error"
     THEN /\ secOut' = Said("authenticate_face", FALSE, "Face authentication error")
          /\ UNCHANGED <<authenticated_users, failed_attempts, security_level,
                         sleeping>>
     ELSE IF FirstMatch(1, matches) # "None"
     THEN Authenticated("authenticate_face", "face", FirstMatch(1, matches))
     ELSE /\ RecordFailedAttempt("unknown", "authenticate_face",
                                 "Face not recognized")
          /\ UNCHANGED authenticated_users
  /\ UNCHANGED <<biometric_data, face_encodings, voice_models,
                 registration_mode, current_registration_user>>
  /\ UNCHANGED <<envVars, loopVars, callVars, cur, intruded, written, brainVars,
                 valVars, stealthVars>>

\* the users authenticate_voice scores: registration complete and a trained
\* model
Scored ==
  {u \in DOMAIN voice_models :
     biometric_data[u].registration_complete /\ voice_models[u].model}

\* SecurityManager.authenticate_voice; decoded is what the audio processing
\* gives, best the user with the highest score above the threshold, or
\* "None"
AuthenticateVoice(decoded, best) ==
  /\ IF decoded = "error"
     THEN /\ secOut' = Said("authenticate_voice", FALSE, "Voice authentication error")
          /\ UNCHANGED <<authenticated_users, failed_attempts, security_level,
                         sleeping>>
     ELSE IF best \in Scored
     THEN Authenticated("authenticate_voice", "voice", best)
     ELSE /\ best = "None"
          /\ RecordFailedAttempt("unknown", "authenticate_voice",
                                 "Voice not recognized")
          /\ UNCHANGED authenticated_users
  /\ UNCHANGED <<biometric_data, face_encodings, voice_models,
                 registration_mode, current_registration_user>>
  /\ UNCHANGED <<envVars, loopVars, callVars, cur, intruded, written, brainVars,
                 valVars, stealthVars>>

\* asyncio.sleep(300) of the oldest lockdown is over: the level is reset and
\* the authentication request that waited gets its answer
LockdownReset ==
  /\ sleeping # << >>
  /\ security_level' = "high"
  /\ sleeping' = Tail(sleeping)
  /\ secOut' = Head(sleeping)
  /\ UNCHANGED <<biometric_data, face_encodings, voice_models,
                 authenticated_users, failed_attempts, registration_mode,
                 current_registration_user>>
  /\ UNCHANGED <<envVars, loopVars, callVars, cur, intruded, written, brainVars,
                 valVars, stealthVars>>

\* what the image and the recognizer give authenticate_face: a face with
\* the users it matches, no face, or an exception
FaceInputs ==
  {<<"face", matches>> : matches \in SUBSET Usernames}
    \cup {<<"no_face", {}>>, <<"error", {}>>}

\* what the audio and the scoring give authenticate_voice: the best user
\* above the threshold or "None", or an exception
VoiceInputs ==
  {<<"audio", best>> : best \in Usernames \cup {"None"}} \cup {<<"error", "None">>}

\* what the audio and the training give register_voice_sample
VoiceSampleInputs == {<<"audio", TRUE>>, <<"audio", FALSE>>, <<"error", FALSE>>}

SecNext ==
  \/ \E username \in Usernames : StartRegistration(username)
  \/ \E decoded \in {"face", "no_face", "error"} : RegisterFaceSample(decoded)
  \/ \E input \in VoiceSampleInputs : RegisterVoiceSample(input[1], input[2])
  \/ CompleteRegistration
  \/ \E input \in FaceInputs : AuthenticateFace(input[1], input[2])
  \/ \E input \in VoiceInputs : AuthenticateVoice(input[1], input[2])
  \/ LockdownReset

\* the calls on one SecurityManager
SecSpec == Init /\ [][SecNext]_vars

LockNext ==
  \/ \E input \in FaceInputs : AuthenticateFace(input[1], input[2])
  \/ \E input \in VoiceInputs : AuthenticateVoice(input[1], input[2])
  \/ LockdownReset

\* the authentication requests on a SecurityManager without users; the
\* event loop runs on, so a sleep that is over resumes its coroutine
LockSpec == Init /\ [][LockNext]_vars /\ WF_vars(LockdownReset)

\* ------------------------------------------- validating endpoints ----
\* the endpoints of main.py that test a field of the request before they
\* call a manager: path, field, the detail of the 400, the detail of the
\* handler's 500, and the manager method
Validating(path, field, detail, failed, manager) ==
  [path |-> path, field |-> field, detail |-> detail, failed |-> failed,
   manager |-> manager]

ValidatingEndpoints ==
  { Validating("/api/register/start", "username", "Username is required",
               "Registration failed", "security_manager.start_registration"),
    Validating("/api/register/face", "image", "No image file provided",
               "Face registration failed", "security_manager.register_face_sample"),
    Validating("/api/register/voice", "audio", "No audio file provided",
               "Voice registration failed", "security_manager.register_voice_sample"),
    Validating("/api/authenticate/face", "image", "No image file provided",
               "Face authentication failed", "security_manager.authenticate_face"),
    Validating("/api/authenticate/voice", "audio", "No audio file provided",
               "Voice authentication failed", "security_manager.authenticate_voice"),
    Validating("/api/skills/learn", "topic", "Topic is required",
               "Learning failed", "skills_manager.start_learning"),
    Validating("/api/skills/practice", "skill_id", "Skill ID is required",
               "Practice failed", "skills_manager.practice_skill"),
    Validating("/api/skills/complete", "session_id", "Session ID is required",
               "Session completion failed",
               "skills_manager.complete_learning_session"),
    Validating("/api/voice/speak", "text", "Text is required",
               "Speech failed", "voice_manager.speak"),
    Validating("/api/voice/template", "category", "Template category is required",
               "Template speech failed", "voice_manager.speak_template"),
    Validating("/api/voice/profile", "profile_name", "Profile name is required",
               "Voice profile setting failed", "voice_manager.set_voice_profile") }

\* the values a request gives the field; "<absent>" is a request without it
FieldValues == {"<absent>", "", "v"}

\* what FastAPI sends for HTTPException(status_code=400, detail=...) when
\* the exception leaves the handler
BadRequest(endpoint, request, detail) ==
  [endpoint |-> endpoint, request |-> request, status_code |-> 400,
   detail |-> detail]

\* the voice call that follows a successful manager call: speak_template
\* after start_learning, celebrate_skill_mastery after a session that
\* reached the level "expert"
FollowUp(e, outcome) ==
  IF e.path = "/api/skills/learn" /\ outcome \in {"success", "expert"}
  THEN <<[method |-> "voice_manager.speak_template", arg |-> "learning"]>>
  ELSE IF e.path = "/api/skills/complete" /\ outcome = "expert"
  THEN <<[method |-> "voice_manager.celebrate_skill_mastery", arg |-> "expert"]>>
  ELSE << >>

\* one request to a validating endpoint: the handler reads the field,
\* raises HTTPException(400) inside its try block when the field is missing
\* or empty, and otherwise calls the manager; its "except Exception" turns
\* whatever was raised inside the try block into HTTPException(500).
\* outcome is what the manager call does
ValidatedRequest(e, value, outcome) ==
  LET request == IF value = "<absent>" THEN << >> ELSE (e.field :> value)
      got == Get(request, e.field)
  IN  /\ Len(manager_calls) < MaxCalls
      /\ IF got \in {"None", ""}
         THEN /\ response' = ServerError(e.path, request, e.failed,
                                         "400: " \o e.detail)
              /\ UNCHANGED manager_calls
         ELSE /\ manager_calls' =
                   Append(manager_calls, [method |-> e.manager, arg |-> got])
                     \o FollowUp(e, outcome)
              /\ response' =
                   IF outcome = "raises"
                   THEN ServerError(e.path, request, e.failed, "manager error")
                   ELSE Ok(e.path, request,
                           [success |-> outcome \in {"success", "expert"}])
      /\ UNCHANGED <<envVars, loopVars, callVars, cur, intruded, written,
                     mode, active_tasks, clock, frame, secVars, stealthVars>>

ValNext ==
  \E e \in ValidatingEndpoints, value \in FieldValues,
     outcome \in {"success", "expert", "failure", "raises"} :
       ValidatedRequest(e, value, outcome)

\* the requests to the validating endpoints
ValSpec == Init /\ [][ValNext]_vars

\* -------------------------------------------------------- StealthSystem ----
\* the thread targets each activation starts, in start order
Targets(m) ==
  IF m = "exam" THEN <<"_monitor_screen", "_process_answers">>
  ELSE IF m = "interview" THEN <<"_monitor_audio", "_process_interview_responses">>
  ELSE <<"_monitor_applications">>

\* the mode a target's loop condition compares current_mode with
ModeOf(target) ==
  IF target \in {"_monitor_screen", "_process_answers"} THEN "exam"
  ELSE IF target \in {"_monitor_audio", "_process_interview_responses"}
       THEN "interview"
       ELSE "copilot"

\* threading.Thread(target=..., daemon=True).start()
Started(target) == [target |-> target, at |-> "while", stop |-> FALSE]

\* activate_exam_mode, activate_interview_mode, activate_passive_copilot
Activate(m) ==
  /\ Len(threads) + Len(Targets(m)) <= MaxThreads
  /\ current_mode' = m
  /\ is_active' = TRUE
  /\ threads' = threads \o [i \in DOMAIN Targets(m) |-> Started(Targets(m)[i])]
  /\ UNCHANGED <<question_queue, answer_queue>>
  /\ UNCHANGED <<envVars, loopVars, callVars, cur, intruded, written,
                 brainVars, secVars, valVars>>

\* StealthSystem.deactivate
Deactivate ==
  /\ is_active' = FALSE
  /\ current_mode' = "None"
  /\ threads' = [i \in DOMAIN threads |-> [threads[i] EXCEPT !.stop = TRUE]]
  /\ UNCHANGED <<question_queue, answer_queue>>
  /\ UNCHANGED <<envVars, loopVars, callVars, cur, intruded, written,
                 brainVars, secVars, valVars>>

\* StealthSystem.get_current_answers
GetCurrentAnswers ==
  /\ answer_queue' = 0
  /\ UNCHANGED <<is_active, current_mode, question_queue, threads>>
  /\ UNCHANGED <<envVars, loopVars, callVars, cur, intruded, written,
                 brainVars, secVars, valVars>>

\* one step of thread i: the test of its while condition with the
\* iteration that follows up to the next sleep or the next blocking call,
\* or the return of question_queue.get(). detected is the number of
\* questions _monitor_screen finds, answered whether generate_answer
\* returned
ThreadStep(i, detected, answered) ==
  /\ i \in DOMAIN threads
  /\ LET th == threads[i]
         at(position) == [threads EXCEPT ![i].at = position]
     IN  IF th.at = "while"
         THEN IF ~(is_active /\ current_mode = ModeOf(th.target))
              THEN /\ threads' = at("exited")
                   /\ UNCHANGED <<question_queue, answer_queue>>
              ELSE IF th.target = "_monitor_screen"
              THEN /\ question_queue + detected <= MaxQuestions
                   /\ question_queue' = question_queue + detected
                   /\ UNCHANGED <<threads, answer_queue>>
              ELSE IF th.target = "_process_answers" /\ question_queue > 0
              THEN /\ threads' = at("get")
                   /\ UNCHANGED <<question_queue, answer_queue>>
              ELSE UNCHANGED <<threads, question_queue, answer_queue>>
         ELSE /\ th.at = "get"
              /\ question_queue > 0
              /\ question_queue' = question_queue - 1
              /\ IF answered
                 THEN /\ answer_queue < MaxAnswers
                      /\ answer_queue' = answer_queue + 1
                 ELSE UNCHANGED answer_queue
              /\ threads' = at("while")
  /\ UNCHANGED <<is_active, current_mode>>
  /\ UNCHANGED <<envVars, loopVars, callVars, cur, intruded, written,
                 brainVars, secVars, valVars>>

Runs(i) == \E detected \in 0..1, answered \in BOOLEAN : ThreadStep(i, detected, answered)

StealthNext ==
  \/ \E m \in {"exam", "interview", "copilot"} : Activate(m)
  \/ Deactivate
  \/ GetCurrentAnswers
  \/ \E i \in 1..MaxThreads : Runs(i)

\* the calls on the StealthSystem and its threads; every thread that can
\* run does run
StealthSpec ==
  Init /\ [][StealthNext]_vars /\ \A i \in 1..MaxThreads : WF_vars(Runs(i))

\* ============================================================ claims ====
\* entry i of an invocation's results is an error observation that a step
\* handler returned (not the dispatcher's unknown-type answer, and not the
\* record the loop driver's except branch builds)
HandlerReportedError(t, i) ==
  /\ i \in DOMAIN results[t]
  /\ Get(execution_plan[t][i], "type") \in HandledTypes
  /\ IsErrorObs(results[t][i])
  /\ "step" \notin DOMAIN results[t][i]

\* entry i of an invocation's results was built by the loop driver's except
\* branch: execute_step raised
CaughtByDriver(t, i) ==
  /\ i \in DOMAIN results[t]
  /\ "step" \in DOMAIN results[t][i]

\* what the loop of the code cannot do: no plan holds a finish action, and
\* no invocation takes as many steps as the iteration limit
NoFinishNoLimit ==
  \A t \in Invocations :
    /\ \A i \in DOMAIN execution_plan[t] :
         Get(execution_plan[t][i], "type") # "finish"
    /\ idx[t] < MaxSteps
    /\ ret[t].status \in {"<not returned>", "completed"}

\* C1: whenever a step handler has reported an error observation, the value
\* execute_complex_task returns has top-level status "error".
C1_ErrorStatusReturned ==
  \A t \in Invocations :
    (pc[t] = "done" /\ \E i \in DOMAIN results[t] : HandlerReportedError(t, i))
      => ret[t].status = "error"

\* C2: the first step whose handler reports an error is the last step the
\* invocation executes: no entry follows an error entry in the results.
C2_ErrorStopsLoop ==
  \A t \in Invocations :
    \A i \in DOMAIN results[t] :
      HandlerReportedError(t, i) => i = Len(results[t])

\* C3: no handler failure reaches the loop driver as an exception: the
\* except branch of the loop never runs, every failure is an observation
\* the executor returned.
C3_NoExceptionReachesDriver ==
  \A t \in Invocations :
    \A i \in DOMAIN results[t] : ~CaughtByDriver(t, i)

\* C4: an invocation never executes more steps than the configured maximum:
\* the loop position and the number of results stay within MaxSteps.
C4_IterationCap ==
  \A t \in Invocations :
    /\ idx[t] <= MaxSteps
    /\ Len(results[t]) <= MaxSteps
    /\ Len(results[t]) = idx[t]

\* an invocation that ran the longest plan to its end
C4_Witness ==
  \E t \in Invocations :
    /\ pc[t] = "done"
    /\ MatchesSolarRule(task[t])
    /\ idx[t] = Len(SolarPlan)
    /\ Len(ret[t].results) = Len(SolarPlan)

\* C6: every invocation that is running eventually returns (given that each
\* handler call returns), it returns in one of the two terminal states, and
\* once returned it takes no further step: its frame changes only when the
\* caller starts a new invocation.
C6_Terminates ==
  /\ \A t \in Sequential : (pc[t] = "running") ~> (pc[t] = "done")
  /\ [](\A t \in Sequential :
          pc[t] = "done" => ret[t].status \in {"completed", "error"})
  /\ [][\A t \in Sequential :
          pc[t] = "done" =>
            \/ /\ pc'[t] = "done"
               /\ results'[t] = results[t]
               /\ idx'[t] = idx[t]
               /\ ret'[t] = ret[t]
            \/ /\ pc'[t] = "running"
               /\ idx'[t] = 0
               /\ results'[t] = << >>]_vars

\* an invocation that returned after its deploy_pipeline step (the handler
\* that calls itself) had run
C6_Witness ==
  \E t \in Sequential :
    /\ pc[t] = "done"
    /\ ret[t].status = "completed"
    /\ \E i \in DOMAIN results[t] :
         /\ execution_plan[t][i].action = "deploy_pipeline"
         /\ "components" \in DOMAIN results[t][i]
         /\ Len(results[t][i].components) = 2

\* C7: the system handler never throws, and every failure it reports is an
\* observation with status "error" together with a message.
C7_SystemFailureHasErrorStatus ==
  Get(callStep, "type") = "system_operation" =>
    /\ callOut.kind = "return"
    /\ IsErrorObs(callOut.value) =>
         /\ "status" \in DOMAIN callOut.value
         /\ callOut.value.status = "error"

\* the handler the dispatcher is to select for a type tag
HandlerOf(ty) ==
  CASE ty = "browser_automation" -> "execute_browser_action"
    [] ty = "aws_operation" -> "execute_aws_operation"
    [] ty = "system_operation" -> "execute_system_operation"
    [] ty = "code_generation" -> "execute_code_generation"
    [] ty = "file_operation" -> "execute_file_operation"
    [] OTHER -> "<no handler>"

\* C8: execute_step selects the handler from the type tag alone: for a
\* handled type the matching handler is entered and no other; for any other
\* type no handler is entered and an unknown-type error observation is
\* returned.
C8_DispatchByType ==
  callOut.kind # "<none>" =>
    LET ty == Get(callStep, "type")
    IN  IF ty \in HandledTypes
        THEN /\ Len(callOut.calls) >= 1
             /\ \A i \in DOMAIN callOut.calls : callOut.calls[i] = HandlerOf(ty)
        ELSE /\ callOut.calls = << >>
             /\ callOut.kind = "return"
             /\ IsErrorObs(callOut.value)
             /\ callOut.value.error = "Unknown step type: " \o ty

\* a cloud step whose handler called itself for each deployable component
C8_Witness ==
  /\ Get(callStep, "type") = "aws_operation"
  /\ Get(callStep, "action") = "deploy_pipeline"
  /\ callOut.kind = "return"
  /\ callOut.calls = <<"execute_aws_operation", "execute_aws_operation",
                       "execute_aws_operation">>

\* C9: for a task description that matches no hard-coded rule the planner's
\* first proposed action is a finish action carrying a failure message.
C9_UnmatchedPlansFinish ==
  \A t \in Invocations :
    (pc[t] # "idle" /\ ~MatchesSolarRule(task[t])) =>
      /\ Len(execution_plan[t]) >= 1
      /\ Get(execution_plan[t][1], "type") = "finish"
      /\ "message" \in DOMAIN execution_plan[t][1]

\* C11: the planner is a pure function of its input: a planner call (the
\* start of an invocation) leaves the browser session, the cloud session,
\* the files and the session count as they were, and two invocations given
\* the same task description hold the same plan, whatever the instance's
\* state was when each plan was made.
C11_PlannerPure ==
  /\ [](\A t, u \in Invocations :
          (pc[t] # "idle" /\ pc[u] # "idle" /\ task[t] = task[u])
            => execution_plan[t] = execution_plan[u])
  /\ [][\A t \in Invocations :
          (pc[t] \in {"idle", "done"} /\ pc'[t] = "running")
            => /\ driver' = driver
               /\ aws_session' = aws_session
               /\ fs' = fs
               /\ sessions' = sessions]_vars

\* two invocations of the same task whose plans were made before and after
\* the browser session came to exist
C11_Witness ==
  \E t, u \in Invocations :
    /\ t # u
    /\ pc[t] = "running" /\ pc[u] = "running"
    /\ task[t] = task[u]
    /\ MatchesSolarRule(task[t])
    /\ idx[t] >= 1 /\ idx[u] = 0
    /\ driver # "None"

\* C12: there is a task description for which the planner's successive
\* actions are a read-file action, then a write-file action, then a finish
\* action.
C12_ReadWriteFinish ==
  \E d \in TaskDescriptions :
    LET p == CreateExecutionPlan(d)
    IN  /\ Len(p) >= 3
        /\ Get(p[1], "type") = "file_operation"
        /\ Get(p[1], "action") = "read_file"
        /\ Get(p[2], "type") = "file_operation"
        /\ Get(p[2], "action") = "create_file"
        /\ Get(p[3], "type") = "finish"

\* the i-th step of invocation t was a browser action that got past the
\* session check: its handler returned an observation
BrowserStepReturned(t, i) ==
  /\ i <= idx[t]
  /\ Get(execution_plan[t][i], "type") = "browser_automation"
  /\ "step" \notin DOMAIN results[t][i]

\* the i-th step of invocation t was a browser action, whatever its end
BrowserStepRan(t, i) ==
  /\ i <= idx[t]
  /\ Get(execution_plan[t][i], "type") = "browser_automation"

\* C13 as stated: the first browser action creates the session, so once a
\* browser action has run the session exists.
C13_CreatedByFirstAction ==
  \A t \in Invocations : \A i \in 1..idx[t] :
    BrowserStepRan(t, i) => driver # "None"

\* C13 (amended): the session is absent until a browser action's session
\* start succeeds, is created by that action and by nothing else, and is
\* kept by every later step: at most one session is ever created, and a
\* browser action that got past the session check leaves the session set.
C13_OneSessionReused ==
  /\ [](/\ sessions <= 1
        /\ (driver = "None") <=> (sessions = 0)
        /\ \A t \in Invocations : \A i \in 1..idx[t] :
             BrowserStepReturned(t, i) => driver # "None")
  /\ [][driver # "None" => (driver' = driver /\ sessions' = sessions)]_vars
  /\ [][(driver = "None" /\ driver' # "None")
          => \E t \in Invocations :
               /\ idx'[t] = idx[t] + 1
               /\ Get(execution_plan[t][idx'[t]], "type") = "browser_automation"
               /\ "step" \notin DOMAIN results'[t][idx'[t]]]_vars

\* two browser actions of one invocation have returned and one session was
\* started
C13_Witness ==
  \E t \in Invocations :
    /\ idx[t] >= 2
    /\ BrowserStepReturned(t, 1)
    /\ BrowserStepReturned(t, 2)
    /\ sessions = 1

\* C14: under every interleaving of two concurrent invocations that use the
\* browser handler, no invocation ends in a crash, and no browser step of
\* one invocation acts on a page the other invocation navigated to between
\* that invocation's own steps.
C14_NoForeignPage ==
  /\ \A t \in Invocations : intruded[t] # "acted"
  /\ \A t \in Invocations : pc[t] = "done" => ret[t].status = "completed"

\* invocation t's history grows by the observation of t's own next plan
\* step, run on the instance as it is now
AppendsOwnObservation(t) ==
  /\ idx[t] < Len(execution_plan[t])
  /\ \E o \in ExecuteStep(execution_plan[t][idx[t] + 1], CurEnv) :
       results'[t] =
         Append(results[t], Appended(execution_plan[t][idx[t] + 1], o))

\* C15: concurrent invocations never share history: an invocation's
\* history changes only when that invocation starts, takes a step of its
\* own plan (and then it gains the observation of that step) or has been
\* answered; a step of one invocation leaves the other's history as it was;
\* and the history an invocation returns is its own list, one entry per step
\* it took.
C15_IsolatedHistory ==
  /\ [](\A t \in Invocations :
          /\ Len(results[t]) = idx[t]
          /\ pc[t] = "done"
               => /\ ret[t].results = results[t]
                  /\ ret[t].task = task[t]
                  /\ Len(ret[t].results) = Len(execution_plan[t]))
  /\ [][\A t \in Invocations :
          results'[t] # results[t]
            => \/ results'[t] = << >> /\ pc[t] \in {"idle", "done"}
               \/ /\ pc[t] = "running"
                  /\ idx'[t] = idx[t] + 1
                  /\ AppendsOwnObservation(t)
                  /\ \A u \in Invocations \ {t} : results'[u] = results[u]]_vars

\* an invocation has returned a six-entry history while the other one,
\* started before that return, is in the middle of its plan
C15_Witness ==
  \E t, u \in Invocations :
    /\ t # u
    /\ pc[t] = "done"
    /\ Len(ret[t].results) = 6
    /\ pc[u] = "running"
    /\ idx[u] >= 1
    /\ idx[u] < Len(execution_plan[u])

\* invocation t runs its next plan step once: the instance ends as one
\* execution of that step's handler leaves it, and the history gains that
\* execution's observation
RunsNextStepOnce(t) ==
  /\ idx[t] < Len(execution_plan[t])
  /\ \E o \in ExecuteStep(execution_plan[t][idx[t] + 1], CurEnv) :
       /\ results'[t] =
            Append(results[t], Appended(execution_plan[t][idx[t] + 1], o))
       /\ driver' = o.env.driver
       /\ aws_session' = o.env.aws_session
       /\ fs' = o.env.fs
       /\ sessions' = o.env.sessions

\* C16: within one invocation the steps run one at a time in plan order:
\* the position in the plan moves only from i to i + 1, by one execution of
\* step i + 1 made while no other coroutine holds the event loop, and it
\* never moves back while the invocation runs, so no step is run twice; a
\* recorded exception names the step at its own position; the invocation
\* returns when the position has reached the end of the plan.
C16_StepsInPlanOrder ==
  /\ [](\A t \in Invocations :
          /\ idx[t] <= Len(execution_plan[t])
          /\ pc[t] = "done" => idx[t] = Len(execution_plan[t])
          /\ \A i \in 1..idx[t] :
               "step" \in DOMAIN results[t][i]
                 => results[t][i].step = execution_plan[t][i])
  /\ [][\A t \in Invocations :
          idx'[t] # idx[t]
            => \/ idx'[t] = 0 /\ pc[t] \in {"idle", "done"}
               \/ /\ pc[t] = "running"
                  /\ cur \in {"none", t}
                  /\ idx'[t] = idx[t] + 1
                  /\ execution_plan'[t] = execution_plan[t]
                  /\ RunsNextStepOnce(t)]_vars

\* an invocation has taken all six steps of its plan and every handler
\* returned a success observation
C16_Witness ==
  \E t \in Invocations :
    /\ pc[t] = "running"
    /\ idx[t] = 6
    /\ \A i \in 1..6 : Get(results[t][i], "status") = "success"

\* the last direct call was a read_file that returned the content of a
\* file whose last write was a successful create_file
ReadBack(f) ==
  /\ Get(callStep, "type") = "file_operation"
  /\ Get(callStep, "action") = "read_file"
  /\ Get(callStep, "filename") = f
  /\ callOut.kind = "return"
  /\ ~IsErrorObs(callOut.value)
  /\ written[f] # Absent

\* C17: file round trip: a read_file step on a file whose last write was a
\* successful create_file returns exactly the content that was written.
C17_RoundTrip ==
  \A f \in FileNames : ReadBack(f) => callOut.value.content = written[f]

\* body is a value execute_complex_task can return for description
IsTaskResult(body, description) ==
  /\ DOMAIN body = {"task", "execution_plan", "results", "status"}
  /\ body.task = description
  /\ body.execution_plan = CreateExecutionPlan(description)
  /\ Len(body.results) = Len(body.execution_plan)
  /\ body.status = "completed"

\* C18: with the enhanced modules loaded, POST /api/execute-task answers
\* with the structure execute_complex_task produces for the description.
C18_EndpointReturnsTaskResult ==
  (mode = "enhanced" /\ response.endpoint = "/api/execute-task")
    => /\ response.status_code = 200
       /\ IsTaskResult(response.body, response.request)

\* the error messages of the task a response answers: the exception the
\* endpoint caught, and the errors in the results of the task it ran
FailureMessages(resp) ==
  (IF "logged" \in DOMAIN resp THEN {resp.logged} ELSE {})
  \cup
  (IF "body" \in DOMAIN resp /\ "result" \in DOMAIN resp.body
   THEN {resp.body.result.results[i].error :
           i \in {j \in DOMAIN resp.body.result.results :
                    "error" \in DOMAIN resp.body.result.results[j]}}
   ELSE {})

\* C19: when a task fails, the HTTP layer answers 500 and the body carries
\* the task's error message verbatim.
C19_ErrorMessageVerbatim ==
  FailureMessages(response) # {}
    => /\ response.status_code = 500
       /\ response.detail \in FailureMessages(response)

\* the step is the handling of a DELETE /api/tasks/{task_id} request
IsCancelStep ==
  /\ "in_flight" \in DOMAIN response'
  /\ response' # response \/ active_tasks' # active_tasks

C21_AppendOnlyHistory ==
  /\ [](\A t \in Invocations :
          /\ Len(results[t]) = idx[t]
          /\ pc[t] = "done" => ret[t].results = results[t])
  /\ [][\A t \in Invocations :
          (pc[t] = "running" /\ results'[t] # results[t])
            => /\ Len(results'[t]) = Len(results[t]) + 1
               /\ SubSeq(results'[t], 1, Len(results[t])) = results[t]
               /\ AppendsOwnObservation(t)
               /\ idx'[t] = idx[t] + 1]_vars
  /\ [][\A t \in Invocations :
          (pc[t] = "done" /\ pc'[t] = "done") => results'[t] = results[t]]_vars

\* a returned six-entry history whose first entry records the exception of
\* the first step and whose last entry is a success observation
C21_Witness ==
  \E t \in Invocations :
    /\ pc[t] = "done"
    /\ Len(ret[t].results) = 6
    /\ "step" \in DOMAIN ret[t].results[1]
    /\ Get(ret[t].results[6], "status") = "success"

\* C22: after cleanup no browser action operates on the torn-down session:
\* a browser action that has run since the last cleanup has left the
\* instance with a live session.
C22_FreshSessionAfterCleanup ==
  (/\ Get(callStep, "type") = "browser_automation"
   /\ Get(callStep, "action") \in BrowserActions
   /\ callOut.kind = "return")
    => driver = "Chrome"

\* C23: a deploy_pipeline step reports status success only if every
\* component operation it performed reported success.
C23_DeploySuccessMeansAllSucceeded ==
  (/\ Get(callStep, "type") = "aws_operation"
   /\ Get(callStep, "action") = "deploy_pipeline"
   /\ callOut.kind = "return"
   /\ Get(callOut.value, "status") = "success")
    => \A i \in DOMAIN callOut.value.components :
         Get(callOut.value.components[i], "status") = "success"

\* C24: after any sequence of registration and authentication calls, no
\* user whose registration_complete is false has an authenticated session,
\* and no answer of authenticate_face or authenticate_voice reports success
\* for such a user.
C24_OnlyCompleteUsersAuthenticate ==
  /\ \A u \in DOMAIN authenticated_users :
       u \in DOMAIN biometric_data /\ biometric_data[u].registration_complete
  /\ (secOut.call \in {"authenticate_face", "authenticate_voice"} /\ secOut.success)
       => /\ secOut.user \in DOMAIN biometric_data
          /\ biometric_data[secOut.user].registration_complete
          /\ secOut.user \in DOMAIN authenticated_users

\* a user with stored face samples and an open registration is looked for
\* and not recognized, while another user is authenticated
C24_Witness ==
  /\ \E i \in DOMAIN face_encodings :
       ~biometric_data[face_encodings[i].username].registration_complete
  /\ secOut = Said("authenticate_face", FALSE, "Face not recognized")
  /\ authenticated_users # << >>
\* a step of complete_registration: it answers, and no authentication
\* request entered or left a lockdown sleep
CompleteRegistrationStep ==
  /\ secOut'.call = "complete_registration"
  /\ sleeping' = sleeping

\* C25: complete_registration succeeds exactly when a registration session
\* is active and its user has at least 3 face and 3 voice samples; a call
\* that fails leaves registration_mode, current_registration_user and every
\* registration_complete as they were.
C25_CompleteNeedsSamples ==
  [][CompleteRegistrationStep =>
       /\ secOut'.success <=>
            /\ registration_mode
            /\ current_registration_user \in Usernames
            /\ FaceSamples(current_registration_user) >= 3
            /\ VoiceSamples(current_registration_user) >= 3
       /\ ~secOut'.success =>
            /\ registration_mode' = registration_mode
            /\ current_registration_user' = current_registration_user
            /\ DOMAIN biometric_data' = DOMAIN biometric_data
            /\ \A u \in DOMAIN biometric_data :
                 biometric_data'[u].registration_complete
                   = biometric_data[u].registration_complete]_vars

\* one user has completed a registration, and the completion of a second
\* one, who has the face samples but not the voice samples, was refused
C25_Witness ==
  /\ \E u \in DOMAIN biometric_data : biometric_data[u].registration_complete
  /\ secOut = Said("complete_registration", FALSE, "Insufficient samples")
  /\ registration_mode
  /\ FaceSamples(current_registration_user) >= 3
  /\ VoiceSamples(current_registration_user) < 3
\* C26: no key of failed_attempts ever holds more than 10 entries; the
\* failed attempt that brings a key to 5 sets security_level to "lockdown"
\* and removes the key's list; and a security_level of "lockdown" is
\* eventually followed by "high".
C26_LockdownAtFiveThenReset ==
  /\ [](\A key \in DOMAIN failed_attempts : failed_attempts[key] <= 10)
  /\ [][\A key \in DOMAIN failed_attempts :
          (failed_attempts[key] = 4 /\ failed_attempts' # failed_attempts)
            => /\ security_level' = "lockdown"
               /\ key \notin DOMAIN failed_attempts']_vars
  /\ (security_level = "lockdown") ~> (security_level = "high")

\* the fifth failed attempt has locked the system down and its list is gone
C26_Witness ==
  /\ security_level = "lockdown"
  /\ Len(sleeping) = 1
  /\ "unknown" \notin DOMAIN failed_attempts
\* C27: as long as a triggered lockdown has not reached its own reset,
\* security_level is "lockdown"; the reset of an earlier lockdown does not
\* lower the level while a later one is still waiting.
C27_LockdownHeldUntilOwnReset ==
  sleeping # << >> => security_level = "lockdown"
\* C28: a start_registration call made while a registration session is
\* active leaves current_registration_user as it is.
C28_ActiveSessionNotReplaced ==
  [][(/\ registration_mode
      /\ current_registration_user \in Usernames
      /\ secOut'.call = "start_registration"
      /\ sleeping' = sleeping)
       => current_registration_user' = current_registration_user]_vars
\* C29: a request to a validating endpoint that lacks the endpoint's
\* required field is answered 400 with the endpoint's detail message.
C29_MissingFieldAnswered400 ==
  \A e \in ValidatingEndpoints :
    (response.endpoint = e.path /\ e.field \notin DOMAIN response.request)
      => response = BadRequest(e.path, response.request, e.detail)

\* C30: once deactivate() has been called after a thread was started, the
\* thread eventually exits.
C30_ThreadsExitAfterDeactivate ==
  \A i \in 1..MaxThreads :
    (i \in DOMAIN threads /\ threads[i].stop)
      ~> (i \in DOMAIN threads /\ threads[i].at = "exited")
====
